---- MODULE Spec2Model ----
(***************************************************************************)
(* A model of text-proc (src/main.go): file workers feed lines through an  *)
(* unbuffered channel to main, which spawns one goroutine per aggregator   *)
(* update and reads the aggregates after waitGroup.Wait().                 *)
(*                                                                         *)
(* A string is the sequence of its runs, <<character, length>>, no two     *)
(* adjacent runs of the same character: equal strings are equal values.    *)
(* A goroutine is a                                                        *)
(* record of its function, receiver, arguments, locals and position; the   *)
(* goroutines in flight are a bag of such records (goroutines have no      *)
(* identity in Go).  The zero-initialised [4000]int of a median estimator  *)
(* is a function whose domain is the set of indices holding a non-zero     *)
(* count; At reads 0 everywhere else below ArrayLen.                       *)
(***************************************************************************)
EXTENDS Integers, Sequences, FiniteSets, Bags, TLC

\* ------------------------------------------------------------ strings

UpperCase == <<"A","B","C","D","E","F","G","H","I","J","K","L","M",
               "N","O","P","Q","R","S","T","U","V","W","X","Y","Z">>

LowerCase == <<"a","b","c","d","e","f","g","h","i","j","k","l","m",
               "n","o","p","q","r","s","t","u","v","w","x","y","z">>

\* unicode.IsSpace on the ASCII range (the vertical tab has no TLA+ escape)
WhiteSpace == {" ", "\t", "\n", "\f", "\r"}

IsSpace(c) == c \in WhiteSpace

ToLowerRune(c) ==
    IF \E k \in 1..26 : UpperCase[k] = c
    THEN LowerCase[CHOOSE k \in 1..26 : UpperCase[k] = c]
    ELSE c

\* adjacent runs of the same character joined into one
RECURSIVE Canon(_)
Canon(runs) ==
    IF Len(runs) <= 1 THEN runs
    ELSE IF runs[1][1] = runs[2][1]
    THEN Canon(<< <<runs[1][1], runs[1][2] + runs[2][2]>> >>
               \o SubSeq(runs, 3, Len(runs)))
    ELSE <<runs[1]>> \o Canon(Tail(runs))

\* the string with the given characters
String(chars) == Canon([i \in 1..Len(chars) |-> <<chars[i], 1>>])

\* a string of n >= 1 copies of the character c
Repeat(c, n) == << <<c, n>> >>

\* len(s), in bytes: the characters are ASCII
RECURSIVE StrLen(_)
StrLen(s) == IF s = << >> THEN 0 ELSE s[1][2] + StrLen(Tail(s))

\* strings.ToLower
ToLower(s) == Canon([i \in 1..Len(s) |-> <<ToLowerRune(s[i][1]), s[i][2]>>])

\* the k-th smallest element of a set of integers
Kth(S, k) == CHOOSE x \in S : Cardinality({y \in S : y < x}) = k - 1

\* the runs at which a field starts, and those at which one ends
FieldStarts(s) ==
    {i \in 1..Len(s) : ~IsSpace(s[i][1]) /\ (i = 1 \/ IsSpace(s[i - 1][1]))}

FieldEnds(s) ==
    {i \in 1..Len(s) : ~IsSpace(s[i][1]) /\ (i = Len(s) \/ IsSpace(s[i + 1][1]))}

\* strings.Fields: the maximal stretches without a space character, in order
Fields(s) ==
    [k \in 1..Cardinality(FieldStarts(s)) |->
        SubSeq(s, Kth(FieldStarts(s), k), Kth(FieldEnds(s), k))]

\* ------------------------------------------------------------ float32
(***************************************************************************)
(* A float32 is <<m, e>>, standing for m * 2^e, with m = 0 (and e = 0) or  *)
(* m odd and |m| < 2^24: every finite float32 has exactly one such form.   *)
(* Each operation returns the exact result rounded to nearest, ties to     *)
(* even, as IEEE 754 requires.  The exponent is unbounded (no overflow to  *)
(* infinity, no subnormals), and the sign of zero is dropped.  TLC's       *)
(* integers are 32 bits wide, so wide products are formed in 12-bit limbs  *)
(* and quotients by long division.                                         *)
(***************************************************************************)

RECURSIVE Pow2(_)
Pow2(k) == IF k <= 0 THEN 1 ELSE 2 * Pow2(k - 1)

Abs(n) == IF n < 0 THEN -n ELSE n

Sign(n) == IF n < 0 THEN -1 ELSE 1

F32Zero == <<0, 0>>

RECURSIVE F32Norm(_, _)
F32Norm(m, e) ==
    IF m = 0 THEN F32Zero
    ELSE IF m % 2 = 0 THEN F32Norm(m \div 2, e + 1)
    ELSE <<m, e>>

\* the magnitude (M + f) * 2^e, 0 <= f < 1, with f > 0 iff sticky, narrowed to
\* 24 bits; rbit is the last bit shifted out.  When sticky, M >= 2^25.
RECURSIVE F32Narrow(_, _, _, _)
F32Narrow(M, e, rbit, sticky) ==
    IF M >= Pow2(24)
    THEN F32Narrow(M \div 2, e + 1, M % 2, sticky \/ rbit = 1)
    ELSE IF rbit = 1 /\ (sticky \/ M % 2 = 1) THEN <<M + 1, e>> ELSE <<M, e>>

\* the element of a set of one element: naming a value this way has it
\* computed once, however often it is used
The(S) == CHOOSE v \in S : TRUE

F32Round(sign, M, e, sticky) ==
    The({F32Norm(s * r[1], r[2]) :
            s \in {sign},
            r \in {F32Narrow(m, x, 0, t) : m \in {M}, x \in {e}, t \in {sticky}}})

\* the largest k with m * 2^k < 2^30, for 0 < m < 2^30
RECURSIVE Headroom(_)
Headroom(m) == IF 2 * m < Pow2(30) THEN 1 + Headroom(2 * m) ELSE 0

Min(a, b) == IF a <= b THEN a ELSE b

\* float32(x) of an int
F32FromInt(n) == F32Round(Sign(n), Abs(n), 0, FALSE)

F32Neg(a) == <<-a[1], a[2]>>

F32Add(x, y) ==
  The({
    IF a[1] = 0 THEN b
    ELSE IF b[1] = 0 THEN a
    ELSE
      LET hi == IF a[2] >= b[2] THEN a ELSE b
          lo == IF a[2] >= b[2] THEN b ELSE a
          d  == hi[2] - lo[2]
          k  == Min(d, Headroom(Abs(hi[1])))
          A  == hi[1] * Pow2(k)
          r  == d - k
      IN  IF r = 0
          THEN LET S == A + lo[1] IN F32Round(Sign(S), Abs(S), lo[2], FALSE)
          ELSE
            LET q    == IF r >= 25 THEN 0 ELSE Abs(lo[1]) \div Pow2(r)
                rem  == IF r >= 25 THEN Abs(lo[1]) ELSE Abs(lo[1]) % Pow2(r)
                same == Sign(hi[1]) = Sign(lo[1])
                M    == IF same THEN Abs(A) + q
                        ELSE IF rem = 0 THEN Abs(A) - q
                        ELSE Abs(A) - q - 1
            IN  F32Round(Sign(A), M, hi[2] - k, rem # 0)
    : a \in {x}, b \in {y}})

F32Sub(a, b) == F32Add(a, F32Neg(b))

F32Mul(x, y) ==
  The({
    IF a[1] = 0 \/ b[1] = 0 THEN F32Zero
    ELSE
      LET ma == Abs(a[1])
          mb == Abs(b[1])
          sg == Sign(a[1]) * Sign(b[1])
      IN  IF ma <= 2147483647 \div mb
          THEN F32Round(sg, ma * mb, a[2] + b[2], FALSE)
          ELSE
            LET a1  == ma \div 4096
                a0  == ma % 4096
                b1  == mb \div 4096
                b0  == mb % 4096
                mid == a1 * b0 + a0 * b1
                L   == (mid % 4096) * 4096 + a0 * b0
                H   == a1 * b1 + mid \div 4096 + L \div Pow2(24)
                Lo  == L % Pow2(24)
                j   == Headroom(H)
            IN  F32Round(sg, H * Pow2(j) + Lo \div Pow2(24 - j),
                         a[2] + b[2] + 24 - j, Lo % Pow2(24 - j) # 0)
    : a \in {x}, b \in {y}})

\* <<quotient, remainder, exponent>> of long division by mb, one bit a step,
\* until the division is exact or the quotient has 27 bits
RECURSIVE F32LongDiv(_, _, _, _)
F32LongDiv(q, r, e, mb) ==
    IF r = 0 \/ q >= Pow2(26) THEN <<q, r, e>>
    ELSE IF 2 * r >= mb THEN F32LongDiv(2 * q + 1, 2 * r - mb, e - 1, mb)
    ELSE F32LongDiv(2 * q, 2 * r, e - 1, mb)

\* b is not zero
F32Div(x, y) ==
  The({
    IF a[1] = 0 THEN F32Zero
    ELSE
      LET ma == Abs(a[1])
          mb == Abs(b[1])
          qr == F32LongDiv(ma \div mb, ma % mb, a[2] - b[2], mb)
      IN  F32Round(Sign(a[1]) * Sign(b[1]), qr[1], qr[3], qr[2] # 0)
    : a \in {x}, b \in {y}})

F32Less(a, b) == F32Sub(a, b)[1] < 0

\* ------------------------------------------------------------ strconv

Digits == <<"0","1","2","3","4","5","6","7","8","9">>

\* strconv.Itoa of a non-negative int
RECURSIVE Itoa(_)
Itoa(n) ==
    IF n < 10 THEN <<Digits[n + 1]>>
    ELSE Itoa(n \div 10) \o <<Digits[(n % 10) + 1]>>

\* ------------------------------------------------------------ syncmap.Map
\* A map is a function from its keys to their values.

EmptyMap == << >>

MapLoad(m, key) ==
    IF key \in DOMAIN m THEN [value |-> m[key], ok |-> TRUE]
    ELSE [value |-> 0, ok |-> FALSE]

MapStore(m, key, value) ==
    [k \in DOMAIN m \cup {key} |-> IF k = key THEN value ELSE m[k]]

\* one atomic step: the existing value if present, else store and return value
MapLoadOrStore(m, key, value) ==
    IF key \in DOMAIN m
    THEN [actual |-> m[key], loaded |-> TRUE, map |-> m]
    ELSE [actual |-> value, loaded |-> FALSE, map |-> MapStore(m, key, value)]

\* ------------------------------------------------------------ medianStorageArray

ArrayLen == 4000

At(array, index) == IF index \in DOMAIN array THEN array[index] ELSE 0

Put(array, index, value) ==
    [k \in DOMAIN array \cup {index} |-> IF k = index THEN value ELSE array[k]]

NewMedianStorageArray ==
    [mutex |-> "unlocked", size |-> 0, frequencyArray |-> << >>]

\* as AddToMedian, counting the value before looking at it
AddToMedian_CountFirst(ms, num) ==
    IF num >= 4000
    THEN [ms |-> [ms EXCEPT !.size = @ + 1],
          err |-> "index too large, line is too long"]
    ELSE [ms |-> [ms EXCEPT !.frequencyArray =
                        Put(@, num, At(ms.frequencyArray, num) + 1),
                     !.size = @ + 1],
          err |-> "nil"]

\* as AddToMedian, setting the counter of num to 1
AddToMedian_Overwrite(ms, num) ==
    IF num >= 4000
    THEN [ms |-> ms, err |-> "index too large, line is too long"]
    ELSE [ms |-> [ms EXCEPT !.frequencyArray = Put(@, num, 1),
                     !.size = @ + 1],
          err |-> "nil"]

\* AddToMedian between Lock and the deferred calls: the receiver afterwards and
\* the error returned
AddToMedian(ms, num) ==
    IF num >= 4000
    THEN [ms |-> ms, err |-> "index too large, line is too long"]
    ELSE [ms |-> [ms EXCEPT !.frequencyArray =
                        Put(@, num, At(ms.frequencyArray, num) + 1),
                     !.size = @ + 1],
          err |-> "nil"]

\* a loop of nextBucket or returnMedian is a record of its locals, with done set
\* once the function has returned val, err

\* one evaluation of the condition and body of nextBucket's loop
NextBucketStep(array, s) ==
    IF s.done THEN s
    ELSE IF ~(s.index < ArrayLen)
    THEN [s EXCEPT !.done = TRUE, !.val = -1, !.err = "reached end of array"]
    ELSE IF At(array, s.index) > 0
    THEN [s EXCEPT !.done = TRUE, !.val = s.index, !.err = "nil"]
    ELSE [s EXCEPT !.index = @ + 1]

\* n evaluations of the loop, or fewer if it returns
RECURSIVE NextBucketLoop(_, _, _)
NextBucketLoop(array, s, n) ==
    IF s.done \/ n = 0 THEN s
    ELSE IF n = 1 THEN NextBucketStep(array, s)
    ELSE The({NextBucketLoop(array, t, n - n \div 2) :
                 t \in {NextBucketLoop(array, s, n \div 2)}})

\* as nextBucket, starting two buckets on
nextBucket_SkipOne(index, array) ==
    NextBucketLoop(array, [index |-> index + 2, done |-> FALSE, val |-> 0,
                           err |-> "nil"], ArrayLen + 1)

nextBucket(index, array) ==
    NextBucketLoop(array, [index |-> index + 1, done |-> FALSE, val |-> 0,
                           err |-> "nil"], ArrayLen + 1)

Return(s, val, err) == [s EXCEPT !.done = TRUE, !.val = val, !.err = err]

\* as EvenStep, returning the bucket itself when the prefix sum through it is
\* desiredPos
EvenStep_NoAverage(ms, desiredPos, s) ==
    IF s.done THEN s
    ELSE IF ~(s.i < desiredPos) THEN Return(s, F32FromInt(-1), "nil")
    ELSE IF s.index >= ArrayLen THEN Return(s, F32Zero, "panic: index out of range")
    ELSE
      LET f == At(ms.frequencyArray, s.index)
      IN  IF s.i <= desiredPos /\ s.i + f >= desiredPos
          THEN Return(s, F32FromInt(s.index), "nil")
          ELSE [s EXCEPT !.i = @ + f, !.index = @ + 1]

\* one evaluation of the condition and body of the loop of the even branch
EvenStep(ms, desiredPos, s) ==
    IF s.done THEN s
    ELSE IF ~(s.i < desiredPos) THEN Return(s, F32FromInt(-1), "nil")
    ELSE IF s.index >= ArrayLen THEN Return(s, F32Zero, "panic: index out of range")
    ELSE
      LET f == At(ms.frequencyArray, s.index)
      IN  IF s.i <= desiredPos /\ s.i + f > desiredPos
          THEN Return(s, F32FromInt(s.index), "nil")
          ELSE IF s.i < desiredPos /\ s.i + f < desiredPos
          THEN [s EXCEPT !.i = @ + f, !.index = @ + 1]
          ELSE IF s.i < desiredPos /\ s.i + f = desiredPos
          THEN LET nb == nextBucket(s.index, ms.frequencyArray)
               IN  IF nb.err # "nil" THEN Return(s, F32FromInt(-1), nb.err)
                   ELSE Return(s, F32Div(F32FromInt(s.index + nb.val),
                                         F32FromInt(2)), "nil")
          ELSE s

\* as OddStep, going on only while the prefix sum stays below desiredPos
OddStep_Below(ms, desiredPos, s) ==
    IF s.done THEN s
    ELSE IF ~(s.i < desiredPos) THEN Return(s, F32FromInt(-1), "nil")
    ELSE IF s.index >= ArrayLen THEN Return(s, F32Zero, "panic: index out of range")
    ELSE
      LET f == At(ms.frequencyArray, s.index)
      IN  IF s.i <= desiredPos /\ s.i + f > desiredPos
          THEN Return(s, F32FromInt(s.index), "nil")
          ELSE IF s.i < desiredPos /\ s.i + f < desiredPos
          THEN [s EXCEPT !.i = @ + f, !.index = @ + 1]
          ELSE s

\* one evaluation of the condition and body of the loop of the odd branch
OddStep(ms, desiredPos, s) ==
    IF s.done THEN s
    ELSE IF ~(s.i < desiredPos) THEN Return(s, F32FromInt(-1), "nil")
    ELSE IF s.index >= ArrayLen THEN Return(s, F32Zero, "panic: index out of range")
    ELSE
      LET f == At(ms.frequencyArray, s.index)
      IN  IF s.i <= desiredPos /\ s.i + f > desiredPos
          THEN Return(s, F32FromInt(s.index), "nil")
          ELSE IF s.i < desiredPos /\ s.i + f <= desiredPos
          THEN [s EXCEPT !.i = @ + f, !.index = @ + 1]
          ELSE s

RECURSIVE MedianLoop(_, _, _, _, _)
MedianLoop(ms, desiredPos, even, s, n) ==
    IF s.done \/ n = 0 THEN s
    ELSE IF n = 1
    THEN IF even THEN EvenStep(ms, desiredPos, s) ELSE OddStep(ms, desiredPos, s)
    ELSE The({MedianLoop(ms, desiredPos, even, t, n - n \div 2) :
                 t \in {MedianLoop(ms, desiredPos, even, s, n \div 2)}})

\* returnMedian between Lock and Unlock: [val, err], val a float32.  A loop
\* that has not returned after ArrayLen + 2 evaluations never returns: each
\* evaluation that goes on either advances index, which panics at ArrayLen,
\* or leaves the locals as they were.
returnMedian(ms) ==
    IF ms.size = 0 THEN [val |-> F32FromInt(-1), err |-> "Empty List"]
    ELSE
      LET even == (ms.size % 2) = 0
          desiredPos == ms.size \div 2
          s == MedianLoop(ms, desiredPos, even,
                          [i |-> 0, index |-> 0, done |-> FALSE,
                           val |-> F32Zero, err |-> "nil"], ArrayLen + 2)
      IN  IF s.done THEN [val |-> s.val, err |-> s.err]
          ELSE [val |-> F32Zero, err |-> "no return"]

\* ------------------------------------------------------------ stdVarianceCalculator

NewStdVarianceCalculator ==
    [mutex |-> "unlocked", runningMean |-> F32Zero, runningM2 |-> F32Zero,
     iterations |-> F32Zero]

\* AddValue between Lock and the deferred calls
AddValue(svc, x) ==
    LET iterations == F32Add(svc.iterations, F32FromInt(1))
        delta  == F32Sub(F32FromInt(x), svc.runningMean)
        mean   == F32Add(svc.runningMean, F32Div(delta, iterations))
        delta2 == F32Sub(F32FromInt(x), mean)
    IN  [svc EXCEPT !.iterations = iterations,
                    !.runningMean = mean,
                    !.runningM2 = F32Add(@, F32Mul(delta, delta2))]

\* as returnStdDev, answering from the first observation on
returnStdDev_AfterOne(svc) ==
    IF F32Less(svc.iterations, F32FromInt(1))
    THEN [val |-> <<F32FromInt(-1), F32FromInt(1)>>, err |-> "Empty List"]
    ELSE [val |-> <<svc.runningM2, F32Sub(svc.iterations, F32FromInt(1))>>,
          err |-> "nil"]

\* returnStdDev between RLock and RUnlock: on success val is <<M2, n - 1>>, the
\* float32 operands of sqrt(float64(M2) / float64(n - 1))
returnStdDev(svc) ==
    IF F32Less(svc.iterations, F32FromInt(2))
    THEN [val |-> <<F32FromInt(-1), F32FromInt(1)>>, err |-> "Empty List"]
    ELSE [val |-> <<svc.runningM2, F32Sub(svc.iterations, F32FromInt(1))>>,
          err |-> "nil"]

\* ------------------------------------------------------------ inputs
(***************************************************************************)
(* A corpus is what one run reads: the files filepath.Walk finds under     *)
(* text-files/ (txt: whether the name ends in .txt) and the lines of       *)
(* keywords.txt.                                                           *)
(***************************************************************************)

Corpora == <<
    \* the same line four times
    [files    |-> << [txt |-> TRUE, lines |-> << << >>, << >>, << >>, << >> >>] >>,
     keywords |-> << String(<<"G","o">>) >>],
    \* a keyword twice in one line
    [files    |-> << [txt |-> TRUE,
                      lines |-> << String(<<"g","o"," ","g","o">>) >>] >>,
     keywords |-> << String(<<"G","o">>) >>],
    \* a keyword in another spelling
    [files    |-> << [txt |-> TRUE, lines |-> << String(<<"G","O">>) >>] >>,
     keywords |-> << String(<<"G","o">>) >>],
    \* a line of 4000 characters and no token, then an empty line
    [files    |-> << [txt |-> TRUE, lines |-> << Repeat(" ", 4000), << >> >>] >>,
     keywords |-> << String(<<"G","o">>) >>],
    \* a token of 4000 characters, which is no keyword
    [files    |-> << [txt |-> TRUE, lines |-> << Repeat("x", 4000) >>] >>,
     keywords |-> << String(<<"G","o">>) >>],
    \* two text files of one line each and a file that is skipped
    [files    |-> << [txt |-> TRUE,  lines |-> << << >> >>],
                     [txt |-> FALSE, lines |-> << String(<<"g","o">>) >>],
                     [txt |-> TRUE,  lines |-> << String(<<" ">>) >>] >>,
     keywords |-> << String(<<"G","o">>) >>],
    \* the same line twice
    [files    |-> << [txt |-> TRUE, lines |-> << << >>, << >> >>] >>,
     keywords |-> << String(<<"G","o">>) >>]
  >>

\* ------------------------------------------------------------ state

VARIABLES
    input,             \* the corpus of this run, an index of Corpora
    workers,           \* processFile goroutines: per file, lines sent and pc
    channelWaitGroup,  \* counter of channelWaitGroup
    lineChan,          \* "open" or "closed" (unbuffered: it holds no line)
    waitGroup,         \* counter of waitGroup
    goroutines,        \* bag of the update goroutines in flight
    keyWordStorage,
    lineDupMap,
    lineMedian,
    tokenMedian,
    lineStdDev,
    tokenStdDev,
    pc,                \* where main is
    result,            \* main's locals d, lm, ls, tm, ts, keywords and err
    stdout,            \* what the run has printed, durations left out
    history            \* what the update goroutines returned or found

vars == <<input, workers, channelWaitGroup, lineChan, waitGroup, goroutines,
          keyWordStorage, lineDupMap, lineMedian, tokenMedian, lineStdDev,
          tokenStdDev, pc, result, stdout, history>>

aggregators == <<keyWordStorage, lineDupMap, lineMedian, tokenMedian,
                 lineStdDev, tokenStdDev>>

Files == Corpora[input].files

NewResult ==
    [d |-> 0, lm |-> F32Zero, ls |-> <<F32Zero, F32Zero>>, tm |-> F32Zero,
     ts |-> <<F32Zero, F32Zero>>, keywords |-> << >>, err |-> "nil"]

\* loaded: <<line, loaded>> for each LoadOrStore that has returned;
\* returned: <<receiver, num, err>> for each AddToMedian that has returned
NoHistory == [loaded |-> EmptyBag, returned |-> EmptyBag]

\* InitializeKeywords: every line of keywords.txt, lower-cased, stored with 0
RECURSIVE InitializeKeywords(_, _)
InitializeKeywords(m, lines) ==
    IF lines = << >> THEN m
    ELSE InitializeKeywords(MapStore(m, ToLower(Head(lines)), 0), Tail(lines))

\* the state when main reaches its range loop (line 87): keywords loaded, one
\* processFile goroutine per .txt file, the closing goroutine waiting
Init ==
    /\ input \in 1..Len(Corpora)
    /\ workers = [f \in {k \in 1..Len(Files) : Files[k].txt} |->
                     [pc |-> "Scan", sent |-> 0]]
    /\ channelWaitGroup = Cardinality({k \in 1..Len(Files) : Files[k].txt})
    /\ lineChan = "open"
    /\ waitGroup = 0
    /\ goroutines = EmptyBag
    /\ keyWordStorage =
           [Keywords |-> InitializeKeywords(EmptyMap, Corpora[input].keywords)]
    /\ lineDupMap = [Lines |-> EmptyMap, numDupes |-> 0]
    /\ lineMedian = NewMedianStorageArray
    /\ tokenMedian = NewMedianStorageArray
    /\ lineStdDev = NewStdVarianceCalculator
    /\ tokenStdDev = NewStdVarianceCalculator
    /\ pc = "range"
    /\ result = NewResult
    /\ stdout = << >>
    /\ history = NoHistory

\* ------------------------------------------------------------ goroutines

Goroutine(fn, recv, str, num) ==
    [fn |-> fn, recv |-> recv, pc |-> "start", str |-> str, num |-> num,
     tmp |-> 0]

One(g) == SetToBag({g})

\* g takes a step and goes on as h
Step(g, h) == goroutines' = (goroutines (-) One(g)) (+) One(h)

\* g returns
Exit(g) == goroutines' = goroutines (-) One(g)

\* the goroutines of lines 96..99, for the tokens of one line
RECURSIVE TokenGoroutines(_)
TokenGoroutines(tokens) ==
    IF tokens = << >> THEN EmptyBag
    ELSE One(Goroutine("AddValue", "tokenStdDev", << >>, StrLen(Head(tokens))))
         (+) One(Goroutine("AddToMedian", "tokenMedian", << >>, StrLen(Head(tokens))))
         (+) One(Goroutine("CheckForKeywords", "keyWordStorage", Head(tokens), 0))
         (+) TokenGoroutines(Tail(tokens))

\* the goroutines of lines 88..100, for one line
LineGoroutines(line) ==
    One(Goroutine("CheckForDuplicate", "lineDupMap", line, 0))
    (+) One(Goroutine("AddValue", "lineStdDev", << >>, StrLen(line)))
    (+) One(Goroutine("AddToMedian", "lineMedian", << >>, StrLen(line)))
    (+) TokenGoroutines(Fields(line))

\* as Added, without the Add of line 96
Added_LineOnly(line) == 3

\* what waitGroup.Add is given during one pass of the range loop: 3 for the
\* line (line 89) and 3 for each token (line 96)
Added(line) == 3 + 3 * Len(Fields(line))

\* ------------------------------------------------------------ Line Source

\* processFile sends its next line and main, receiving it, runs the body of
\* its range loop: unbuffered, so send and receive are one step
RangeBody(f) ==
    /\ pc = "range"
    /\ workers[f].pc = "Scan"
    /\ workers[f].sent < Len(Files[f].lines)
    /\ LET line == Files[f].lines[workers[f].sent + 1]
       IN  /\ workers' = [workers EXCEPT ![f].sent = @ + 1]
           /\ waitGroup' = waitGroup + Added(line)
           /\ goroutines' = goroutines (+) LineGoroutines(line)
    /\ UNCHANGED <<input, channelWaitGroup, lineChan, aggregators, pc, result,
                   stdout, history>>

\* as processFileReturn, without the deferred channelWaitGroup.Done()
processFileReturn_NoDone(f) ==
    /\ workers[f].pc = "Scan"
    /\ workers[f].sent = Len(Files[f].lines)
    /\ workers' = [workers EXCEPT ![f].pc = "returned"]
    /\ stdout' = Append(stdout, "Reading in took")
    /\ UNCHANGED <<input, channelWaitGroup, lineChan, waitGroup, goroutines,
                   aggregators, pc, result, history>>

\* Scan returns false: processFile prints and returns, its deferred Done runs
processFileReturn(f) ==
    /\ workers[f].pc = "Scan"
    /\ workers[f].sent = Len(Files[f].lines)
    /\ workers' = [workers EXCEPT ![f].pc = "returned"]
    /\ stdout' = Append(stdout, "Reading in took")
    /\ channelWaitGroup' = channelWaitGroup - 1
    /\ UNCHANGED <<input, lineChan, waitGroup, goroutines, aggregators, pc,
                   result, history>>

\* as CloseLineChan, without channelWaitGroup.Wait()
CloseLineChan_NoWait ==
    /\ lineChan = "open"
    /\ lineChan' = "closed"
    /\ UNCHANGED <<input, workers, channelWaitGroup, waitGroup, goroutines,
                   aggregators, pc, result, stdout, history>>

\* the goroutine of lines 83..86
CloseLineChan ==
    /\ lineChan = "open"
    /\ channelWaitGroup = 0
    /\ lineChan' = "closed"
    /\ UNCHANGED <<input, workers, channelWaitGroup, waitGroup, goroutines,
                   aggregators, pc, result, stdout, history>>

\* main's range loop ends on the closed channel
RangeEnd ==
    /\ pc = "range"
    /\ lineChan = "closed"
    /\ pc' = "Wait"
    /\ UNCHANGED <<input, workers, channelWaitGroup, lineChan, waitGroup,
                   goroutines, aggregators, result, stdout, history>>

\* ------------------------------------------------------------ update goroutines

\* CheckForDuplicate at line 188, given what LoadOrStore returned
AfterLoadOrStore(g, r) == [g EXCEPT !.pc = IF r.loaded THEN "read" ELSE "Done"]

\* as CheckForDuplicate_Lookup, with Load in place of LoadOrStore
CheckForDuplicate_LoadOnly(ldm, line) ==
    [actual |-> MapLoad(ldm.Lines, line).value,
     loaded |-> MapLoad(ldm.Lines, line).ok,
     map    |-> ldm.Lines]

\* line 188: ldm.Lines.LoadOrStore(line, 1)
CheckForDuplicate_Lookup(ldm, line) == MapLoadOrStore(ldm.Lines, line, 1)

CheckForDuplicate_LoadOrStore(g) ==
    /\ g.fn = "CheckForDuplicate" /\ g.pc = "start"
    /\ LET r == CheckForDuplicate_Lookup(lineDupMap, g.str)
       IN  /\ lineDupMap' = [lineDupMap EXCEPT !.Lines = r.map]
           /\ history' = [history EXCEPT
                            !.loaded = @ (+) One(<<g.str, r.loaded>>)]
           /\ Step(g, AfterLoadOrStore(g, r))
    /\ UNCHANGED <<input, workers, channelWaitGroup, lineChan, waitGroup,
                   keyWordStorage, lineMedian, tokenMedian, lineStdDev,
                   tokenStdDev, pc, result, stdout>>

\* ldm.numDupes++ holds no lock: its read and its write are two steps
CheckForDuplicate_Read(g) ==
    /\ g.fn = "CheckForDuplicate" /\ g.pc = "read"
    /\ Step(g, [g EXCEPT !.tmp = lineDupMap.numDupes, !.pc = "write"])
    /\ UNCHANGED <<input, workers, channelWaitGroup, lineChan, waitGroup,
                   aggregators, pc, result, stdout, history>>

CheckForDuplicate_Write(g) ==
    /\ g.fn = "CheckForDuplicate" /\ g.pc = "write"
    /\ lineDupMap' = [lineDupMap EXCEPT !.numDupes = g.tmp + 1]
    /\ Step(g, [g EXCEPT !.pc = "Done"])
    /\ UNCHANGED <<input, workers, channelWaitGroup, lineChan, waitGroup,
                   keyWordStorage, lineMedian, tokenMedian, lineStdDev,
                   tokenStdDev, pc, result, stdout, history>>

\* as CheckForKeywords_Lookup, going on to Store whatever Load found
CheckForKeywords_StoreAlways(ks, g) ==
    LET word == ToLower(g.str)
        r    == MapLoad(ks.Keywords, word)
    IN  [g EXCEPT !.str = word, !.tmp = r.value, !.pc = "Store"]

\* CheckForKeywords at lines 165..169: word lower-cased and looked up; the
\* assertion val.(int) holds of every stored value
CheckForKeywords_Lookup(ks, g) ==
    LET word == ToLower(g.str)
        r    == MapLoad(ks.Keywords, word)
    IN  IF r.ok THEN [g EXCEPT !.str = word, !.tmp = r.value, !.pc = "Store"]
        ELSE [g EXCEPT !.str = word, !.pc = "Done"]

CheckForKeywords_Load(g) ==
    /\ g.fn = "CheckForKeywords" /\ g.pc = "start"
    /\ Step(g, CheckForKeywords_Lookup(keyWordStorage, g))
    /\ UNCHANGED <<input, workers, channelWaitGroup, lineChan, waitGroup,
                   aggregators, pc, result, stdout, history>>

\* line 170, a step of its own: nothing ties it to the Load before it
CheckForKeywords_Store(g) ==
    /\ g.fn = "CheckForKeywords" /\ g.pc = "Store"
    /\ keyWordStorage' = [keyWordStorage EXCEPT
                            !.Keywords = MapStore(@, g.str, g.tmp + 1)]
    /\ Step(g, [g EXCEPT !.pc = "Done"])
    /\ UNCHANGED <<input, workers, channelWaitGroup, lineChan, waitGroup,
                   lineDupMap, lineMedian, tokenMedian, lineStdDev, tokenStdDev,
                   pc, result, stdout, history>>

\* AddValue from Lock to the deferred wg.Done(): defers run last in, first
\* out, so wg.Done() runs with the mutex still held, and nothing the
\* goroutine writes can be seen until it unlocks
AddValue_Lock(g) ==
    /\ g.fn = "AddValue" /\ g.pc = "start"
    /\ IF g.recv = "lineStdDev"
       THEN /\ lineStdDev.mutex = "unlocked"
            /\ lineStdDev' = [AddValue(lineStdDev, g.num) EXCEPT
                                !.mutex = "locked"]
            /\ UNCHANGED tokenStdDev
       ELSE /\ tokenStdDev.mutex = "unlocked"
            /\ tokenStdDev' = [AddValue(tokenStdDev, g.num) EXCEPT
                                 !.mutex = "locked"]
            /\ UNCHANGED lineStdDev
    /\ waitGroup' = waitGroup - 1
    /\ Step(g, [g EXCEPT !.pc = "Unlock"])
    /\ UNCHANGED <<input, workers, channelWaitGroup, lineChan,
                   keyWordStorage, lineDupMap, lineMedian, tokenMedian, pc,
                   result, stdout, history>>

\* AddToMedian has returned err to the go statement, which drops it
Returned(h, recv, num, err) ==
    [h EXCEPT !.returned = @ (+) One(<<recv, num, err>>)]

\* AddToMedian from Lock to the deferred wg.Done(), as AddValue
AddToMedian_Lock(g) ==
    /\ g.fn = "AddToMedian" /\ g.pc = "start"
    /\ IF g.recv = "lineMedian"
       THEN /\ lineMedian.mutex = "unlocked"
            /\ lineMedian' = [AddToMedian(lineMedian, g.num).ms EXCEPT
                                !.mutex = "locked"]
            /\ history' = Returned(history, g.recv, g.num,
                                   AddToMedian(lineMedian, g.num).err)
            /\ UNCHANGED tokenMedian
       ELSE /\ tokenMedian.mutex = "unlocked"
            /\ tokenMedian' = [AddToMedian(tokenMedian, g.num).ms EXCEPT
                                 !.mutex = "locked"]
            /\ history' = Returned(history, g.recv, g.num,
                                   AddToMedian(tokenMedian, g.num).err)
            /\ UNCHANGED lineMedian
    /\ waitGroup' = waitGroup - 1
    /\ Step(g, [g EXCEPT !.pc = "Unlock"])
    /\ UNCHANGED <<input, workers, channelWaitGroup, lineChan,
                   keyWordStorage, lineDupMap, lineStdDev, tokenStdDev, pc,
                   result, stdout>>

\* the deferred wg.Done() of CheckForDuplicate and CheckForKeywords, which
\* then return
WaitGroupDone(g) ==
    /\ g.pc = "Done"
    /\ waitGroup' = waitGroup - 1
    /\ Exit(g)
    /\ UNCHANGED <<input, workers, channelWaitGroup, lineChan, aggregators,
                   pc, result, stdout, history>>

\* the deferred mutex.Unlock() of AddValue and AddToMedian, which then return
MutexUnlock(g) ==
    /\ g.pc = "Unlock"
    /\ lineStdDev' = IF g.recv = "lineStdDev"
                     THEN [lineStdDev EXCEPT !.mutex = "unlocked"]
                     ELSE lineStdDev
    /\ tokenStdDev' = IF g.recv = "tokenStdDev"
                      THEN [tokenStdDev EXCEPT !.mutex = "unlocked"]
                      ELSE tokenStdDev
    /\ lineMedian' = IF g.recv = "lineMedian"
                     THEN [lineMedian EXCEPT !.mutex = "unlocked"]
                     ELSE lineMedian
    /\ tokenMedian' = IF g.recv = "tokenMedian"
                      THEN [tokenMedian EXCEPT !.mutex = "unlocked"]
                      ELSE tokenMedian
    /\ Exit(g)
    /\ UNCHANGED <<input, workers, channelWaitGroup, lineChan, waitGroup,
                   keyWordStorage, lineDupMap, pc, result, stdout, history>>

\* ------------------------------------------------------------ main after the loop

\* waitGroup.Wait() returns when the counter is zero
Wait ==
    /\ pc = "Wait"
    /\ waitGroup = 0
    /\ pc' = "NumDuplicates"
    /\ UNCHANGED <<input, workers, channelWaitGroup, lineChan, waitGroup,
                   goroutines, aggregators, result, stdout, history>>

\* NumDuplicates reads the counter, under no lock
NumDuplicates ==
    /\ pc = "NumDuplicates"
    /\ result' = [result EXCEPT !.d = lineDupMap.numDupes]
    /\ pc' = "lineMedian.returnMedian"
    /\ UNCHANGED <<input, workers, channelWaitGroup, lineChan, waitGroup,
                   goroutines, aggregators, stdout, history>>

\* check(err) builds an error value with fmt.Errorf and drops it: main keeps
\* only the err of its latest call
LineReturnMedian ==
    /\ pc = "lineMedian.returnMedian"
    /\ lineMedian.mutex = "unlocked"
    /\ stdout' = Append(stdout, "Calculating Median took")
    /\ result' = [result EXCEPT !.lm = returnMedian(lineMedian).val,
                                !.err = returnMedian(lineMedian).err]
    /\ pc' = "lineStdDev.returnStdDev"
    /\ UNCHANGED <<input, workers, channelWaitGroup, lineChan, waitGroup,
                   goroutines, aggregators, history>>

LineReturnStdDev ==
    /\ pc = "lineStdDev.returnStdDev"
    /\ lineStdDev.mutex = "unlocked"
    /\ stdout' = Append(stdout, "Calculating StdDev took")
    /\ result' = [result EXCEPT !.ls = returnStdDev(lineStdDev).val,
                                !.err = returnStdDev(lineStdDev).err]
    /\ pc' = "tokenMedian.returnMedian"
    /\ UNCHANGED <<input, workers, channelWaitGroup, lineChan, waitGroup,
                   goroutines, aggregators, history>>

TokenReturnMedian ==
    /\ pc = "tokenMedian.returnMedian"
    /\ tokenMedian.mutex = "unlocked"
    /\ stdout' = Append(stdout, "Calculating Median took")
    /\ result' = [result EXCEPT !.tm = returnMedian(tokenMedian).val,
                                !.err = returnMedian(tokenMedian).err]
    /\ pc' = "tokenStdDev.returnStdDev"
    /\ UNCHANGED <<input, workers, channelWaitGroup, lineChan, waitGroup,
                   goroutines, aggregators, history>>

TokenReturnStdDev ==
    /\ pc = "tokenStdDev.returnStdDev"
    /\ tokenStdDev.mutex = "unlocked"
    /\ stdout' = Append(stdout, "Calculating StdDev took")
    /\ result' = [result EXCEPT !.ts = returnStdDev(tokenStdDev).val,
                                !.err = returnStdDev(tokenStdDev).err]
    /\ pc' = "ReturnKeywords"
    /\ UNCHANGED <<input, workers, channelWaitGroup, lineChan, waitGroup,
                   goroutines, aggregators, history>>

\* the sequences that list every element of S once
Orderings(S) ==
    {q \in [1..Cardinality(S) -> S] : \A e \in S : \E k \in DOMAIN q : q[k] = e}

\* Range visits the keys in an order of its own choosing
ReturnKeywords ==
    /\ pc = "ReturnKeywords"
    /\ \E order \in Orderings(DOMAIN keyWordStorage.Keywords) :
         result' = [result EXCEPT !.keywords =
                      [k \in DOMAIN order |->
                         <<order[k], Itoa(keyWordStorage.Keywords[order[k]])>>]]
    /\ pc' = "done"
    /\ UNCHANGED <<input, workers, channelWaitGroup, lineChan, waitGroup,
                   goroutines, aggregators, stdout, history>>

\* ------------------------------------------------------------ specification

Next ==
    \/ \E f \in DOMAIN workers : RangeBody(f)
    \/ \E f \in DOMAIN workers : processFileReturn(f)
    \/ CloseLineChan
    \/ RangeEnd
    \/ \E g \in BagToSet(goroutines) : CheckForDuplicate_LoadOrStore(g)
    \/ \E g \in BagToSet(goroutines) : CheckForDuplicate_Read(g)
    \/ \E g \in BagToSet(goroutines) : CheckForDuplicate_Write(g)
    \/ \E g \in BagToSet(goroutines) : CheckForKeywords_Load(g)
    \/ \E g \in BagToSet(goroutines) : CheckForKeywords_Store(g)
    \/ \E g \in BagToSet(goroutines) : AddValue_Lock(g)
    \/ \E g \in BagToSet(goroutines) : AddToMedian_Lock(g)
    \/ \E g \in BagToSet(goroutines) : WaitGroupDone(g)
    \/ \E g \in BagToSet(goroutines) : MutexUnlock(g)
    \/ Wait
    \/ NumDuplicates
    \/ LineReturnMedian
    \/ LineReturnStdDev
    \/ TokenReturnMedian
    \/ TokenReturnStdDev
    \/ ReturnKeywords

Spec == Init /\ [][Next]_vars

\* ------------------------------------------------------------ one estimator
(***************************************************************************)
(* A medianStorageArray on its own, used by one caller: values are         *)
(* inserted one call at a time and the median is asked for in between.     *)
(* pc is "insert" after an insertion and "queried" when result holds the   *)
(* answer of returnMedian for the estimator as it is.                      *)
(***************************************************************************)

MaxInserts == 4

MedianValues == {0, 1, 3, 3999, 4000, 4001}

MedianInit ==
    /\ input = 1
    /\ workers = << >>
    /\ channelWaitGroup = 0
    /\ lineChan = "closed"
    /\ waitGroup = 0
    /\ goroutines = EmptyBag
    /\ keyWordStorage = [Keywords |-> EmptyMap]
    /\ lineDupMap = [Lines |-> EmptyMap, numDupes |-> 0]
    /\ lineMedian = NewMedianStorageArray
    /\ tokenMedian = NewMedianStorageArray
    /\ lineStdDev = NewStdVarianceCalculator
    /\ tokenStdDev = NewStdVarianceCalculator
    /\ pc = "insert"
    /\ result = NewResult
    /\ stdout = << >>
    /\ history = NoHistory

\* wg.Add(1) and a whole call of AddToMedian(num, &wg)
MedianInsert(num) ==
    /\ pc \in {"insert", "queried"}
    /\ BagCardinality(history.returned) < MaxInserts
    /\ lineMedian' = AddToMedian(lineMedian, num).ms
    /\ history' = Returned(history, "lineMedian", num,
                           AddToMedian(lineMedian, num).err)
    /\ pc' = "insert"
    /\ result' = NewResult
    /\ UNCHANGED <<input, workers, channelWaitGroup, lineChan, waitGroup,
                   goroutines, keyWordStorage, lineDupMap, tokenMedian,
                   lineStdDev, tokenStdDev, stdout>>

\* a whole call of returnMedian, what it prints left out
MedianQuery ==
    /\ pc = "insert"
    /\ result' = [result EXCEPT !.lm = returnMedian(lineMedian).val,
                                !.err = returnMedian(lineMedian).err]
    /\ pc' = "queried"
    /\ UNCHANGED <<input, workers, channelWaitGroup, lineChan, waitGroup,
                   goroutines, aggregators, stdout, history>>

MedianNext ==
    \/ \E num \in MedianValues : MedianInsert(num)
    \/ MedianQuery

MedianSpec == MedianInit /\ [][MedianNext]_vars

\* ------------------------------------------------------------ reference values

\* the lines of the .txt files, file after file
RECURSIVE LinesFrom(_)
LinesFrom(files) ==
    IF files = << >> THEN << >>
    ELSE (IF Head(files).txt THEN Head(files).lines ELSE << >>)
         \o LinesFrom(Tail(files))

InputLines == LinesFrom(Files)

RECURSIVE TokensFrom(_)
TokensFrom(lines) ==
    IF lines = << >> THEN << >>
    ELSE Fields(Head(lines)) \o TokensFrom(Tail(lines))

InputTokens == TokensFrom(InputLines)

Range(q) == {q[k] : k \in DOMAIN q}

\* the keys InitializeKeywords stores
Seeded == {ToLower(w) : w \in Range(Corpora[input].keywords)}

\* main has returned from waitGroup.Wait()
AfterWait ==
    pc \in {"NumDuplicates", "lineMedian.returnMedian", "lineStdDev.returnStdDev",
            "tokenMedian.returnMedian", "tokenStdDev.returnStdDev",
            "ReturnKeywords", "done"}

\* the aggregates when the updates of main's loop run one after the other,
\* each to its end, in the order main starts them
RECURSIVE SequentialTokens(_, _)
SequentialTokens(a, tokens) ==
    IF tokens = << >> THEN a
    ELSE
      LET word == ToLower(Head(tokens))
          r    == MapLoad(a.keyWordStorage.Keywords, word)
      IN  SequentialTokens(
            [a EXCEPT
               !.tokenStdDev = AddValue(@, StrLen(Head(tokens))),
               !.tokenMedian = AddToMedian(@, StrLen(Head(tokens))).ms,
               !.keyWordStorage.Keywords =
                   IF r.ok THEN MapStore(@, word, r.value + 1) ELSE @],
            Tail(tokens))

RECURSIVE SequentialLines(_, _)
SequentialLines(a, lines) ==
    IF lines = << >> THEN a
    ELSE
      LET line == Head(lines)
          r    == MapLoadOrStore(a.lineDupMap.Lines, line, 1)
      IN  SequentialLines(
            SequentialTokens(
              [a EXCEPT
                 !.lineDupMap = [Lines |-> r.map,
                                 numDupes |-> IF r.loaded THEN @.numDupes + 1
                                              ELSE @.numDupes],
                 !.lineStdDev = AddValue(@, StrLen(line)),
                 !.lineMedian = AddToMedian(@, StrLen(line)).ms],
              Fields(line)),
            Tail(lines))

Sequential ==
    SequentialLines(
      [keyWordStorage |->
           [Keywords |-> InitializeKeywords(EmptyMap, Corpora[input].keywords)],
       lineDupMap  |-> [Lines |-> EmptyMap, numDupes |-> 0],
       lineMedian  |-> NewMedianStorageArray,
       tokenMedian |-> NewMedianStorageArray,
       lineStdDev  |-> NewStdVarianceCalculator,
       tokenStdDev |-> NewStdVarianceCalculator],
      InputLines)

\* the values AddToMedian has accepted on lineMedian, as a bag
Accepted ==
    LET ok == {e \in BagToSet(history.returned) :
                  e[1] = "lineMedian" /\ e[3] = "nil"}
    IN  [v \in {e[2] : e \in ok} |-> CopiesIn(<<"lineMedian", v, "nil">>, history.returned)]

\* the values of a bag of integers in ascending order
RECURSIVE Sorted(_)
Sorted(bag) ==
    IF BagToSet(bag) = {} THEN << >>
    ELSE LET least == CHOOSE v \in BagToSet(bag) : \A w \in BagToSet(bag) : v <= w
         IN  <<least>> \o Sorted(bag (-) One(least))

\* the median of a non-empty ascending sequence, as a float32: the middle
\* value, or half the sum of the two middle values
ReferenceMedian(q) ==
    IF Len(q) % 2 = 1 THEN F32Norm(q[(Len(q) + 1) \div 2], 0)
    ELSE F32Norm(q[Len(q) \div 2] + q[Len(q) \div 2 + 1], -1)

\* the estimator after AddToMedian of each value of the sequence q
RECURSIVE Inserted(_, _)
Inserted(ms, q) ==
    IF q = << >> THEN ms ELSE Inserted(AddToMedian(ms, Head(q)).ms, Tail(q))

\* ------------------------------------------------------------ claims

\* C1: after waitGroup.Wait() has returned, NumDuplicates returns the number
\* of lines less the number of distinct lines, in every interleaving.
C1_DuplicateCount ==
    (AfterWait /\ pc # "NumDuplicates") =>
        result.d = Len(InputLines) - Cardinality(Range(InputLines))

\* C2: once every CheckForKeywords call has completed, the count of each
\* seeded keyword is the number of tokens whose lower-cased form it is.
C2_KeywordCounts ==
    AfterWait =>
        \A k \in Seeded :
            keyWordStorage.Keywords[k] =
                Cardinality({i \in DOMAIN InputTokens :
                                ToLower(InputTokens[i]) = k})

\* C3: returnMedian of a non-empty estimator holding only values of 0..3999
\* returns a nil error and the reference median of the values inserted: the
\* middle one, or the average of the two middle ones.
C3_MedianIsReference ==
    (pc = "queried" /\ lineMedian.size > 0) =>
        /\ result.err = "nil"
        /\ result.lm = ReferenceMedian(Sorted(Accepted))

\* C4: once Wait has returned, main's final queries find every line received
\* and dispatched, the counter at zero, and no update goroutine that has yet
\* to write or to call Done: those still in flight only have to unlock.
C4_NoQueryBeforeUpdates ==
    AfterWait =>
        /\ lineChan = "closed"
        /\ \A f \in DOMAIN workers : workers[f].sent = Len(Files[f].lines)
        /\ waitGroup = 0
        /\ \A g \in BagToSet(goroutines) : g.pc = "Unlock"
        /\ lineStdDev.iterations = F32FromInt(Len(InputLines))
        /\ tokenStdDev.iterations = F32FromInt(Len(InputTokens))

\* C4 witness: main is at a final query while an update goroutine of the
\* last line is still in flight
C4_Witness ==
    /\ pc = "lineMedian.returnMedian"
    /\ goroutines # EmptyBag
    /\ Len(InputTokens) > 0

\* C5: the final aggregates are those of the run that makes the updates one
\* after the other, whatever the interleaving: the duplicate count, both
\* histograms and sizes, both observation counts and every keyword count.
C5_Deterministic ==
    pc = "done" =>
        /\ lineDupMap.numDupes = Sequential.lineDupMap.numDupes
        /\ lineMedian.frequencyArray = Sequential.lineMedian.frequencyArray
        /\ lineMedian.size = Sequential.lineMedian.size
        /\ tokenMedian.frequencyArray = Sequential.tokenMedian.frequencyArray
        /\ tokenMedian.size = Sequential.tokenMedian.size
        /\ lineStdDev.iterations = Sequential.lineStdDev.iterations
        /\ tokenStdDev.iterations = Sequential.tokenStdDev.iterations
        /\ keyWordStorage = Sequential.keyWordStorage

\* AddToMedian has just returned an error
RejectionReturned ==
    \E e \in BagToSet(history'.returned) :
        /\ e[3] # "nil"
        /\ CopiesIn(e, history'.returned) > CopiesIn(e, history.returned)

\* C6: a call of AddToMedian with a value >= 4000 returns an error and leaves
\* size and every counter as they were, and values >= 4000 are the only ones
\* refused; so the estimator is always the one the in-range insertions alone
\* build, and returnMedian answers as it does for that one.
C6_RejectionLeavesEstimator ==
    /\ [][RejectionReturned =>
            /\ lineMedian'.size = lineMedian.size
            /\ lineMedian'.frequencyArray = lineMedian.frequencyArray]_vars
    /\ [](/\ \A e \in BagToSet(history.returned) : (e[3] # "nil") <=> (e[2] >= 4000)
          /\ lineMedian = Inserted(NewMedianStorageArray, Sorted(Accepted))
          /\ pc = "queried" =>
               /\ result.lm = returnMedian(Inserted(NewMedianStorageArray,
                                                    Sorted(Accepted))).val
               /\ result.err = returnMedian(Inserted(NewMedianStorageArray,
                                                     Sorted(Accepted))).err)

\* C6 witness: the median has been asked for after a rejected insertion that
\* followed accepted ones
C6_Witness ==
    /\ pc = "queried"
    /\ lineMedian.size = 2
    /\ result.err = "nil"
    /\ \E e \in BagToSet(history.returned) : e[3] # "nil"

\* C7: numDupes never decreases from one state to the next.
C7_Monotonic ==
    [][lineDupMap'.numDupes >= lineDupMap.numDupes]_vars

\* C8: of the LoadOrStore calls made with one line, exactly one finds the
\* line absent and every other finds it present, and only those go on to
\* count a duplicate.
C8_OneFirstOccurrence ==
    /\ \A e \in BagToSet(history.loaded) :
          /\ CopiesIn(<<e[1], FALSE>>, history.loaded) = 1
          /\ e[1] \in DOMAIN lineDupMap.Lines
    /\ \A g \in BagToSet(goroutines) :
          (g.fn = "CheckForDuplicate" /\ g.pc \in {"read", "write"}) =>
              CopiesIn(<<g.str, TRUE>>, history.loaded) >= 1
    /\ AfterWait =>
          BagCardinality(history.loaded) = Len(InputLines)

\* C8 witness: one line has been looked up four times, all calls done
C8_Witness ==
    \E e \in BagToSet(history.loaded) :
        /\ CopiesIn(<<e[1], TRUE>>, history.loaded) = 3
        /\ CopiesIn(<<e[1], FALSE>>, history.loaded) = 1

\* the goroutine g takes the step from this state to the next
Steps(g) == CopiesIn(g, goroutines') < CopiesIn(g, goroutines)

\* C9: the keys of the keyword map are always the lower-cased lines of
\* keywords.txt, and no step of a CheckForKeywords call whose lower-cased
\* word is not among them changes the map.
C9_KeywordFrame ==
    /\ DOMAIN keyWordStorage.Keywords = Seeded
    /\ [][/\ DOMAIN keyWordStorage'.Keywords = DOMAIN keyWordStorage.Keywords
          /\ \A g \in BagToSet(goroutines) :
                (/\ g.fn = "CheckForKeywords"
                 /\ ToLower(g.str) \notin Seeded
                 /\ Steps(g)) => keyWordStorage' = keyWordStorage]_vars

\* C9 witness: a call with a word that is no keyword has returned
C9_Witness ==
    /\ pc = "done"
    /\ \E t \in Range(InputTokens) : ToLower(t) \notin Seeded

\* C10: after the run main holds, or has printed, a record of each update
\* the median estimators rejected.
C10_RejectionsRecorded ==
    pc = "done" =>
        \A e \in BagToSet(history.returned) :
            e[3] # "nil" =>
                \/ result.err = e[3]
                \/ \E i \in DOMAIN stdout : stdout[i] = e[3]

\* C11: returnMedian returns an error when size is 0, and returnStdDev returns
\* an error when fewer than 2 values have been observed and a nil error when
\* 2 or more have: result.err is the error of main's latest query.
C11_InsufficientData ==
    /\ pc = "lineStdDev.returnStdDev" =>
          (lineMedian.size = 0 => result.err # "nil")
    /\ pc = "tokenMedian.returnMedian" =>
          /\ (result.err # "nil") <=> (Len(InputLines) < 2)
          /\ (result.err # "nil") <=>
                 F32Less(lineStdDev.iterations, F32FromInt(2))
    /\ pc = "tokenStdDev.returnStdDev" =>
          (tokenMedian.size = 0 => result.err # "nil")
    /\ pc = "ReturnKeywords" =>
          /\ (result.err # "nil") <=> (Len(InputTokens) < 2)
          /\ (result.err # "nil") <=>
                 F32Less(tokenStdDev.iterations, F32FromInt(2))

\* C11 witness: the token estimators were asked with no token and with one
\* token seen, and the line calculator with two lines or more
C11_Witness ==
    \/ /\ pc = "tokenStdDev.returnStdDev"
       /\ tokenMedian.size = 0
       /\ result.err = "Empty List"
    \/ /\ pc = "ReturnKeywords"
       /\ Len(InputTokens) = 1
       /\ result.err = "Empty List"

\* ------------------------------------------------------------ scheduling
(***************************************************************************)
(* The Go scheduler lets a goroutine that can run do so: as long as some   *)
(* step of the program is possible, some step is taken.                    *)
(***************************************************************************)

\* the corpora of the runs checked for termination, the larger ones left out
FairCorpora == {3, 4, 5, 6, 7}

FairInit == Init /\ input \in FairCorpora

FairSpec == FairInit /\ [][Next]_vars /\ WF_vars(Next)

\* main has made its last query, every processFile has returned and every
\* update goroutine has unlocked and returned
Terminated ==
    /\ pc = "done"
    /\ lineChan = "closed"
    /\ \A f \in DOMAIN workers : workers[f].pc = "returned"
    /\ waitGroup = 0
    /\ goroutines = EmptyBag
    /\ lineMedian.mutex = "unlocked" /\ tokenMedian.mutex = "unlocked"
    /\ lineStdDev.mutex = "unlocked" /\ tokenStdDev.mutex = "unlocked"

\* C12: under fair scheduling every run terminates and none deadlocks: the
\* file workers finish, lineChan is closed, the range loop ends, Wait returns
\* and each final query gets its lock and returns.
C12_Terminates == <>[]Terminated

\* C12 witness: the run is over for a corpus of two files, and for one with
\* tokens, whose update goroutines hold the mutexes main's queries need
C12_Witness ==
    /\ Terminated
    /\ Len(InputTokens) > 0
    /\ Len(stdout) = 5

\* ------------------------------------------------------------ one calculator
(***************************************************************************)
(* A stdVarianceCalculator on its own: its mutex lets one AddValue run at  *)
(* a time, so concurrent calls reach it as a sequence in some order.       *)
(* history.returned holds <<"lineStdDev", x, "nil">> for each call made    *)
(* with x.  Products here are rounded before they are added; a build that  *)
(* fuses delta * delta2 into the addition may differ in the last bit.      *)
(***************************************************************************)

MaxUpdates == 4

StdDevValues == {0, 2, 3}

\* the calls of a long run
RunLength == 16777215

StdDevInit ==
    /\ input = 1
    /\ workers = << >>
    /\ channelWaitGroup = 0
    /\ lineChan = "closed"
    /\ waitGroup = 0
    /\ goroutines = EmptyBag
    /\ keyWordStorage = [Keywords |-> EmptyMap]
    /\ lineDupMap = [Lines |-> EmptyMap, numDupes |-> 0]
    /\ lineMedian = NewMedianStorageArray
    /\ tokenMedian = NewMedianStorageArray
    /\ lineStdDev = NewStdVarianceCalculator
    /\ tokenStdDev = NewStdVarianceCalculator
    /\ pc = "insert"
    /\ result = NewResult
    /\ stdout = << >>
    /\ history = NoHistory

\* the calls of AddValue made so far
Observed == BagCardinality(history.returned)

\* the calls made one at a time, those of a long run left out
ObservedSingly == IF Observed >= RunLength THEN Observed - RunLength ELSE Observed

\* wg.Add(1) and a whole call of AddValue(x, &wg)
StdDevAdd(x) ==
    /\ pc \in {"insert", "queried"}
    /\ ObservedSingly < MaxUpdates
    /\ lineStdDev' = AddValue(lineStdDev, x)
    /\ history' = Returned(history, "lineStdDev", x, "nil")
    /\ pc' = "insert"
    /\ result' = NewResult
    /\ UNCHANGED <<input, workers, channelWaitGroup, lineChan, waitGroup,
                   goroutines, keyWordStorage, lineDupMap, lineMedian,
                   tokenMedian, tokenStdDev, stdout>>

\* RunLength calls of AddValue(x, &wg), one after the other, made when the
\* mean is x: then delta and delta2 are 0, so a call changes nothing but
\* iterations, which it raises by 1 exactly as long as the count is below 2^24
StdDevAddRun(x) ==
    /\ pc \in {"insert", "queried"}
    /\ Observed <= 1
    /\ lineStdDev.iterations = F32Norm(Observed, 0)
    /\ AddValue(lineStdDev, x) =
           [lineStdDev EXCEPT !.iterations = F32Norm(Observed + 1, 0)]
    /\ Observed + RunLength <= Pow2(24)
    /\ lineStdDev' = [lineStdDev EXCEPT
                        !.iterations = F32Norm(Observed + RunLength, 0)]
    /\ history' = [history EXCEPT
                     !.returned = @ (+) [e \in {<<"lineStdDev", x, "nil">>} |->
                                            RunLength]]
    /\ pc' = "insert"
    /\ result' = NewResult
    /\ UNCHANGED <<input, workers, channelWaitGroup, lineChan, waitGroup,
                   goroutines, keyWordStorage, lineDupMap, lineMedian,
                   tokenMedian, tokenStdDev, stdout>>

\* a whole call of returnStdDev, what it prints left out
StdDevQuery ==
    /\ pc = "insert"
    /\ result' = [result EXCEPT !.ls = returnStdDev(lineStdDev).val,
                                !.err = returnStdDev(lineStdDev).err]
    /\ pc' = "queried"
    /\ UNCHANGED <<input, workers, channelWaitGroup, lineChan, waitGroup,
                   goroutines, aggregators, stdout, history>>

StdDevNext ==
    \/ \E x \in StdDevValues : StdDevAdd(x)
    \/ \E x \in StdDevValues : StdDevAddRun(x)
    \/ StdDevQuery

StdDevSpec == StdDevInit /\ [][StdDevNext]_vars

\* the sum of f(x) over the values x observed
RECURSIVE SumOver(_, _)
SumOver(bag, f) ==
    IF BagToSet(bag) = {} THEN 0
    ELSE LET e == CHOOSE v \in BagToSet(bag) : TRUE
         IN  f[e[2]] * bag[e] + SumOver([v \in BagToSet(bag) \ {e} |-> bag[v]], f)

ObservedSum == SumOver(history.returned, [x \in StdDevValues |-> x])

ObservedSquares == SumOver(history.returned, [x \in StdDevValues |-> x * x])

\* the float32 a, in units of 2^-16, rounded down
Fixed(a) ==
    IF a[2] + 16 >= 0 THEN a[1] * Pow2(a[2] + 16)
    ELSE a[1] \div Pow2(-(a[2] + 16))

\* a is num / den to within 2^-15
Near(a, num, den) == Abs(Fixed(a) * den - num * Pow2(16)) <= 2 * den

\* C13: after n >= 1 calls of AddValue iterations is n and runningMean is the
\* mean of the values, and from n = 2 on returnStdDev answers from an M2 that
\* is the sum of the squared distances from the mean, as a two-pass
\* computation finds it.  Mean and M2 are compared to within 2^-15, and only
\* while the sums fit an integer, after calls made one at a time.
C13_Welford ==
    Observed >= 1 =>
        /\ lineStdDev.iterations = F32Norm(Observed, 0)
        /\ Observed <= MaxUpdates =>
              /\ Near(lineStdDev.runningMean, ObservedSum, Observed)
              /\ Near(lineStdDev.runningM2,
                      Observed * ObservedSquares - ObservedSum * ObservedSum,
                      Observed)
              /\ (pc = "queried" /\ Observed >= 2) =>
                    /\ result.err = "nil"
                    /\ result.ls = <<lineStdDev.runningM2,
                                     F32Norm(Observed - 1, 0)>>

\* the sum of the counters of a frequencyArray
RECURSIVE SumOfCounters(_)
SumOfCounters(array) ==
    IF DOMAIN array = {} THEN 0
    ELSE LET k == CHOOSE i \in DOMAIN array : TRUE
         IN  array[k] + SumOfCounters([i \in DOMAIN array \ {k} |-> array[i]])

\* the calls of AddToMedian on recv that have returned, made with a value
\* below 4000
CompletedBelow4000(recv) ==
    LET calls == {e \in BagToSet(history.returned) : e[1] = recv /\ e[2] < 4000}
    IN  BagCardinality([e \in calls |-> CopiesIn(e, history.returned)])

\* C14: whenever no AddToMedian call holds the mutex of an estimator, its
\* counters sum to size, and size is the number of AddToMedian calls
\* completed with a value below 4000.
C14_CountersSumToSize ==
    /\ lineMedian.mutex = "unlocked" =>
          /\ SumOfCounters(lineMedian.frequencyArray) = lineMedian.size
          /\ lineMedian.size = CompletedBelow4000("lineMedian")
    /\ tokenMedian.mutex = "unlocked" =>
          /\ SumOfCounters(tokenMedian.frequencyArray) = tokenMedian.size
          /\ tokenMedian.size = CompletedBelow4000("tokenMedian")

\* C14 witness: four calls made concurrently with one value have all
\* returned
C14_Witness ==
    /\ lineMedian.mutex = "unlocked"
    /\ lineMedian.size = 4
    /\ SumOfCounters(lineMedian.frequencyArray) = 4

\* C15: each line is handed to the line calculator once, so when the run is
\* over and its deviation is asked for, iterations is the number of lines
\* (here the calls of AddValue made on lineStdDev).
C15_DispatchCounts ==
    pc = "queried" => lineStdDev.iterations = F32Norm(Observed, 0)

\* the number of times line occurs among the first sent lines of each worker
Sent(line) ==
    Cardinality({p \in UNION {{<<f, i>> : i \in 1..workers[f].sent} :
                                 f \in DOMAIN workers} :
                    Files[p[1]].lines[p[2]] = line})

\* the number of times main has received line: each pass of the range loop
\* starts one CheckForDuplicate with it, which is yet to look it up or has
\* done so
Received(line) ==
    CopiesIn(Goroutine("CheckForDuplicate", "lineDupMap", line, 0), goroutines)
    + CopiesIn(<<line, TRUE>>, history.loaded)
    + CopiesIn(<<line, FALSE>>, history.loaded)

\* the number of times line occurs among the lines of the .txt files
Occurrences(line) ==
    Cardinality({i \in DOMAIN InputLines : InputLines[i] = line})

\* C16: main receives each line a processFile worker sends, once; lineChan
\* is closed only when every worker has sent all its lines and returned, so
\* no worker sends on a closed channel; and when the range loop is over main
\* has received every line of every .txt file exactly once.
C16_LinesDeliveredOnce ==
    /\ DOMAIN workers = {k \in 1..Len(Files) : Files[k].txt}
    /\ \A f \in DOMAIN workers :
          /\ workers[f].sent <= Len(Files[f].lines)
          /\ workers[f].pc = "returned" => workers[f].sent = Len(Files[f].lines)
    /\ lineChan = "closed" =>
          \A f \in DOMAIN workers : workers[f].pc = "returned"
    /\ \A line \in Range(InputLines) : Received(line) = Sent(line)
    /\ pc # "range" =>
          \A line \in Range(InputLines) : Received(line) = Occurrences(line)

\* C16 witness: the range loop is over for a corpus of two .txt files
C16_Witness ==
    /\ pc = "Wait"
    /\ Cardinality(DOMAIN workers) = 2
    /\ \A line \in Range(InputLines) : Received(line) = 1

\* the sum of the counters of the buckets 0..k
Prefix(ms, k) ==
    SumOfCounters([i \in {j \in DOMAIN ms.frequencyArray : j <= k} |->
                      ms.frequencyArray[i]])

\* the least element of a non-empty set of integers
Least(S) == CHOOSE v \in S : \A w \in S : v <= w

\* the buckets with a positive count
Occupied(ms) == {k \in DOMAIN ms.frequencyArray : ms.frequencyArray[k] > 0}

\* C17: with size even and not 0, if the prefix sum through some bucket is
\* exactly size / 2, returnMedian returns the average of that bucket's index
\* and the index of the next bucket with a positive count; otherwise it
\* returns the index of the first bucket whose prefix sum exceeds size / 2.
C17_EvenBranch ==
    (pc = "queried" /\ lineMedian.size > 0 /\ lineMedian.size % 2 = 0) =>
        LET half == lineMedian.size \div 2
            hit  == {k \in Occupied(lineMedian) : Prefix(lineMedian, k) = half}
            over == {k \in Occupied(lineMedian) : Prefix(lineMedian, k) > half}
        IN  /\ result.err = "nil"
            /\ IF hit # {}
               THEN result.lm =
                        F32Norm(Least(hit) +
                                Least({k \in Occupied(lineMedian) :
                                          k > Least(hit)}), -1)
               ELSE result.lm = F32Norm(Least(over), 0)

\* C17 witness: the median of two values in different buckets has been asked
\* for, and is their average
C17_Witness ==
    /\ pc = "queried"
    /\ lineMedian.size = 2
    /\ Occupied(lineMedian) = {1, 3}
    /\ result.lm = F32FromInt(2)

\* the locals of returnMedian's loop after n evaluations of its condition
\* and body, for an estimator that is not empty
Evaluations(ms, n) ==
    MedianLoop(ms, ms.size \div 2, (ms.size % 2) = 0,
               [i |-> 0, index |-> 0, done |-> FALSE, val |-> F32Zero,
                err |-> "nil"], n)

\* C18: returnMedian returns, for every estimator AddToMedian has built, in
\* the odd and in the even branch: every pass of the loop that does not
\* return raises index by 1, and index stays within 0..3999.
C18_MedianReturns ==
    (pc = "queried" /\ lineMedian.size > 0) =>
        /\ result.err \notin {"no return", "panic: index out of range"}
        /\ \A n \in {0, 1, 2} \cup Occupied(lineMedian)
                      \cup {k + 1 : k \in Occupied(lineMedian)} :
              ~Evaluations(lineMedian, n).done =>
                  /\ Evaluations(lineMedian, n).index = n
                  /\ n <= 3999

\* C18 witness: the loop has gone through every bucket up to the last, in
\* the odd branch
C18_Witness ==
    /\ pc = "queried"
    /\ lineMedian.size = 3
    /\ Occupied(lineMedian) = {3999}
    /\ result.lm = F32FromInt(3999)

\* the greatest element of a non-empty set of integers
Greatest(S) == CHOOSE v \in S : \A w \in S : v >= w

\* C19: returnMedian of an estimator that is not empty never returns -1 with
\* a nil error: with a nil error its value is not below the smallest value
\* inserted nor above the largest.
C19_NoSentinel ==
    (pc = "queried" /\ lineMedian.size > 0 /\ result.err = "nil") =>
        /\ result.lm # F32FromInt(-1)
        /\ ~F32Less(result.lm, F32FromInt(Least(Occupied(lineMedian))))
        /\ ~F32Less(F32FromInt(Greatest(Occupied(lineMedian))), result.lm)

\* C20: returnMedian never returns "reached end of array": whenever the
\* prefix sum through a bucket is exactly size / 2 in the even branch,
\* nextBucket finds a later bucket with a positive count.
C20_NextBucketFound ==
    /\ pc = "queried" => result.err # "reached end of array"
    /\ (lineMedian.size > 0 /\ lineMedian.size % 2 = 0) =>
          \A k \in Occupied(lineMedian) :
              Prefix(lineMedian, k) = lineMedian.size \div 2 =>
                  /\ nextBucket(k, lineMedian.frequencyArray).err = "nil"
                  /\ nextBucket(k, lineMedian.frequencyArray).val
                         \in Occupied(lineMedian)
                  /\ nextBucket(k, lineMedian.frequencyArray).val > k

\* C20 witness: nextBucket was called from a bucket far below the next one
C20_Witness ==
    /\ pc = "queried"
    /\ lineMedian.size = 2
    /\ Occupied(lineMedian) = {3, 3999}
    /\ result.err = "nil"
    /\ result.lm = F32Norm(4002, -1)
====
